---- MODULE Spec2Model ----
(***************************************************************************)
(* Data-Ingestion-API-System: the scheduling engine of                     *)
(* src/data-ingestion-api/index.js.                                        *)
(*                                                                         *)
(* The Node.js event loop runs one synchronous segment at a time, so each  *)
(* action below is one such segment: a request handler from its first to   *)
(* its last line, or a dispatcher run (processBatches) from one `await`    *)
(* to the next.  Date.now() is the variable `now`, which advances in steps *)
(* of the shortest timer; a timer (timers/promises setTimeout) fires at    *)
(* the first clock value at or past its deadline, in any order with the    *)
(* other segments that are ready at that clock value.                      *)
(***************************************************************************)
EXTENDS Integers, Sequences, FiniteSets, TLC

\* ---------------------------------------------------------------- constants
RATE_LIMIT_MS == 5000
BATCH_SIZE == 3
FETCH_DELAY_MS == 1000
MAX_ID == 1000000007

\* ------------------------------------------------------------------- bounds
MaxJobs == 2      \* accepted submissions
MaxIds == 4       \* ids of one accepted submission
MaxTicks == 9     \* clock advances
MaxBatches == 3   \* batches of the job whose status is recomputed on its own

TickMs == FETCH_DELAY_MS

StartTime == 2 * RATE_LIMIT_MS
MaxTime == StartTime + MaxTicks * TickMs

VARIABLES
    now,               \* Date.now()
    queue,             \* queue.items
    ingestionJobs,     \* Map ingestion_id -> job; ids are 1..Len
    batchStatuses,     \* Map batch_id -> {batch_id, ids, status}; ids are 1..Len
    lastProcessedTime,
    runs,              \* the invocations of processBatches, in start order
    response,          \* the HTTP response sent by the step just taken
    accepted,          \* history: per job, its ids and what its submission found
    log,               \* history: per dispatch, in trigger order, its times
    attempts           \* history: per batch, its per-item calls that settled

vars == <<now, queue, ingestionJobs, batchStatuses, lastProcessedTime, runs,
          response, accepted, log, attempts>>

core == <<queue, ingestionJobs, batchStatuses, lastProcessedTime, runs>>

\* ------------------------------------------------------------ PriorityQueue
priorityOrder(p) ==
    CASE p = "HIGH" -> 0
      [] p = "MEDIUM" -> 1
      [] p = "LOW" -> 2

\* faulty variant: the priority difference taken the wrong way round
comparatorDescending(a, b) ==
    IF priorityOrder(a.priority) # priorityOrder(b.priority)
    THEN priorityOrder(b.priority) - priorityOrder(a.priority)
    ELSE a.created_time - b.created_time

\* the comparator of `queue`: negative when a sorts before b
comparator(a, b) ==
    IF priorityOrder(a.priority) # priorityOrder(b.priority)
    THEN priorityOrder(a.priority) - priorityOrder(b.priority)
    ELSE a.created_time - b.created_time

\* Array.prototype.sort is stable: x goes after every element it does not
\* strictly precede
RECURSIVE InsertSorted(_, _)
InsertSorted(x, s) ==
    IF s = <<>> THEN <<x>>
    ELSE IF comparator(x, Head(s)) < 0 THEN <<x>> \o s
    ELSE <<Head(s)>> \o InsertSorted(x, Tail(s))

RECURSIVE StableSort(_)
StableSort(s) ==
    IF s = <<>> THEN <<>>
    ELSE InsertSorted(s[Len(s)], StableSort(SubSeq(s, 1, Len(s) - 1)))

\* faulty variant: push without the sort
enqueueUnsorted(items, item) == Append(items, item)

enqueue(items, item) == StableSort(Append(items, item))

\* faulty variant: items[0] read without removing it
dequeuePeek(items) == items

\* items.shift(): the queue that is left (shift of an empty array leaves it)
dequeue(items) == IF items = <<>> THEN <<>> ELSE Tail(items)

\* ------------------------------------------------------- Status Aggregator
\* faulty variant: completed only when every batch is, else yet_to_start
\* unless a batch is triggered
jobStatusAllCompleted(batches) ==
    IF \A i \in DOMAIN batches : batches[i].status = "completed" THEN "completed"
    ELSE IF \E i \in DOMAIN batches : batches[i].status = "triggered" THEN "triggered"
    ELSE "yet_to_start"

\* faulty variant: a job that is neither untouched nor finished is triggered
jobStatusInProgress(batches) ==
    IF \A i \in DOMAIN batches : batches[i].status = "yet_to_start" THEN "yet_to_start"
    ELSE IF \A i \in DOMAIN batches : batches[i].status = "completed" THEN "completed"
    ELSE "triggered"

jobStatus(batches) ==
    LET allYetToStart == \A i \in DOMAIN batches : batches[i].status = "yet_to_start"
        anyTriggered == \E i \in DOMAIN batches : batches[i].status = "triggered"
    IN  IF allYetToStart THEN "yet_to_start"
        ELSE IF anyTriggered THEN "triggered"
        ELSE "completed"

\* faulty variant: only the job's first batch is looked at
updateIngestionStatusFirstBatch(jobs, bs, ingestion_id) ==
    IF ingestion_id \notin DOMAIN jobs THEN jobs
    ELSE [jobs EXCEPT ![ingestion_id].status =
             bs[jobs[ingestion_id].batches[1]].status]

\* the job map after updateIngestionStatus(ingestion_id)
updateIngestionStatus(jobs, bs, ingestion_id) ==
    IF ingestion_id \notin DOMAIN jobs THEN jobs
    ELSE LET job == jobs[ingestion_id]
             batches == [i \in DOMAIN job.batches |-> bs[job.batches[i]]]
         IN  [jobs EXCEPT ![ingestion_id].status = jobStatus(batches)]

\* --------------------------------------------------------------- Dispatcher
NoBatch == [batch_id |-> 0, ids |-> <<>>, priority |-> "LOW",
            created_time |-> 0, ingestion_id |-> 0]

Returned == [pc |-> "returned", wakeAt |-> 0, batch |-> NoBatch, idx |-> 0]
Threw == [pc |-> "threw", wakeAt |-> 0, batch |-> NoBatch, idx |-> 0]

Active(run) == run.pc \in {"wait", "fetch"}

\* faulty variant: the batch marked completed at dispatch
triggeredStatusSkipped == "completed"

triggeredStatus == "triggered"
completedStatus == "completed"

\* lines 61-70: dequeue, mark triggered, recompute the job, start the first
\* per-item call.  Destructuring the `undefined` that an empty queue returns
\* throws a TypeError, which ends the run.
Dispatch(st, t) ==
    IF st.queue = <<>>
    THEN [st EXCEPT !.run = Threw]
    ELSE LET batch == Head(st.queue)
             bs == [st.batchStatuses EXCEPT ![batch.batch_id] =
                       [batch_id |-> batch.batch_id, ids |-> batch.ids,
                        status |-> triggeredStatus]]
         IN  [queue |-> dequeue(st.queue),
              batchStatuses |-> bs,
              ingestionJobs |-> updateIngestionStatus(st.ingestionJobs, bs,
                                                      batch.ingestion_id),
              lastProcessedTime |-> st.lastProcessedTime,
              run |-> [pc |-> "fetch", wakeAt |-> t + FETCH_DELAY_MS,
                       batch |-> batch, idx |-> 1],
              log |-> Append(st.log, [batch_id |-> batch.batch_id,
                                      triggeredAt |-> t, completedAt |-> -1])]

\* faulty variant: no rate gate
LoopHeadNoGate(st, t) ==
    IF Len(st.queue) > 0 THEN Dispatch(st, t) ELSE [st EXCEPT !.run = Returned]

\* faulty variant: the wait lasts the time elapsed, not the time remaining
LoopHeadShortWait(st, t) ==
    IF Len(st.queue) > 0
    THEN IF t - st.lastProcessedTime < RATE_LIMIT_MS
         THEN [st EXCEPT !.run =
                  [pc |-> "wait", wakeAt |-> t + (t - st.lastProcessedTime),
                   batch |-> NoBatch, idx |-> 0]]
         ELSE Dispatch(st, t)
    ELSE [st EXCEPT !.run = Returned]

\* lines 55-59: the loop check and the rate gate, up to the first suspension
LoopHead(st, t) ==
    IF Len(st.queue) > 0
    THEN IF t - st.lastProcessedTime < RATE_LIMIT_MS
         THEN [st EXCEPT !.run =
                  [pc |-> "wait",
                   wakeAt |-> t + (RATE_LIMIT_MS - (t - st.lastProcessedTime)),
                   batch |-> NoBatch, idx |-> 0]]
         ELSE Dispatch(st, t)
    ELSE [st EXCEPT !.run = Returned]

\* faulty variant: the job's status is not recomputed after the batch completed
CompleteNoRecompute(st, batch, t) ==
    LoopHead([st EXCEPT
                !.batchStatuses[batch.batch_id].status = completedStatus,
                !.lastProcessedTime = t,
                !.log = [i \in DOMAIN st.log |->
                           IF st.log[i].batch_id = batch.batch_id
                           THEN [st.log[i] EXCEPT !.completedAt = t]
                           ELSE st.log[i]]], t)

\* faulty variant: `if` for `while`, the run returns after one batch
CompleteOnce(st, batch, t) ==
    [st EXCEPT
       !.batchStatuses[batch.batch_id].status = completedStatus,
       !.ingestionJobs =
           updateIngestionStatus(st.ingestionJobs,
               [st.batchStatuses EXCEPT ![batch.batch_id].status = completedStatus],
               batch.ingestion_id),
       !.lastProcessedTime = t,
       !.log = [i \in DOMAIN st.log |->
                  IF st.log[i].batch_id = batch.batch_id
                  THEN [st.log[i] EXCEPT !.completedAt = t]
                  ELSE st.log[i]],
       !.run = Returned]

\* lines 76-78, then the next loop check
Complete(st, batch, t) ==
    LET bs == [st.batchStatuses EXCEPT ![batch.batch_id] =
                  [batch_id |-> batch.batch_id, ids |-> batch.ids,
                   status |-> completedStatus]]
        done == [st EXCEPT
                   !.batchStatuses = bs,
                   !.ingestionJobs = updateIngestionStatus(st.ingestionJobs, bs,
                                                           batch.ingestion_id),
                   !.lastProcessedTime = t,
                   !.log = [i \in DOMAIN st.log |->
                              IF st.log[i].batch_id = batch.batch_id
                              THEN [st.log[i] EXCEPT !.completedAt = t]
                              ELSE st.log[i]]]
    IN  LoopHead(done, t)

State(run) ==
    [queue |-> queue, batchStatuses |-> batchStatuses,
     ingestionJobs |-> ingestionJobs, lastProcessedTime |-> lastProcessedTime,
     run |-> run, log |-> log]

NoResponse == [kind |-> "none", code |-> 0, body |-> 0]

Install(st, r) ==
    /\ queue' = st.queue
    /\ batchStatuses' = st.batchStatuses
    /\ ingestionJobs' = st.ingestionJobs
    /\ lastProcessedTime' = st.lastProcessedTime
    /\ log' = st.log
    /\ runs' = IF r > Len(runs) THEN Append(runs, st.run)
               ELSE [runs EXCEPT ![r] = st.run]

\* the rate-limit wait of run r is over (line 58 resolves): lines 61-70
WakeUp(r) ==
    /\ runs[r].pc = "wait"
    /\ now >= runs[r].wakeAt
    /\ Install(Dispatch(State(runs[r]), now), r)
    /\ response' = NoResponse
    /\ UNCHANGED <<now, accepted, attempts>>

\* lines 68-78: after the current item, the next item (its call is started)
\* or, after the last one, lines 76-78 and the loop check
NextItem(st, t) ==
    IF st.run.idx < Len(st.run.batch.ids)
    THEN [st EXCEPT !.run = [st.run EXCEPT !.idx = @ + 1,
                                           !.wakeAt = t + FETCH_DELAY_MS]]
    ELSE Complete(st, st.run.batch, t)

\* faulty variant: no try/catch around the call, the rejection ends the run
Uncaught(st, t) == [st EXCEPT !.run = Threw]

\* lines 71-73: the rejection is caught and logged, the for loop goes on
Caught(st, t) == NextItem(st, t)

\* the call of run r's current item has settled, fulfilled or not
Attempted(r, ok) ==
    [attempts EXCEPT ![runs[r].batch.batch_id] =
        Append(@, [id |-> runs[r].batch.ids[runs[r].idx], ok |-> ok])]

\* fetchExternalData of run r's current item is fulfilled (line 70)
FetchSettled(r) ==
    /\ runs[r].pc = "fetch"
    /\ now >= runs[r].wakeAt
    /\ Install(NextItem(State(runs[r]), now), r)
    /\ attempts' = Attempted(r, TRUE)
    /\ response' = NoResponse
    /\ UNCHANGED <<now, accepted>>

\* the per-item operation of run r's current item fails: the awaited promise
\* is rejected (line 70) and the catch block runs.  The stand-in of lines
\* 48-51 never rejects; a real remote operation may.
FetchFailed(r) ==
    /\ runs[r].pc = "fetch"
    /\ now >= runs[r].wakeAt
    /\ Install(Caught(State(runs[r]), now), r)
    /\ attempts' = Attempted(r, FALSE)
    /\ response' = NoResponse
    /\ UNCHANGED <<now, accepted>>

\* ------------------------------------------------------- Submission Handler
Undefined == "undefined"

\* a JSON value of the ids array: Number.isInteger of it, and its number
Elem(n) == [isInteger |-> TRUE, num |-> n]
NotInteger == [isInteger |-> FALSE, num |-> 1]

\* line 98: `priority = 'LOW'` when the body has none
priorityOf(req) == IF req.priority = Undefined THEN "LOW" ELSE req.priority

\* faulty variant: the lower bound off by one
validIdFromZero(e) == e.isInteger /\ e.num >= 0 /\ e.num <= MAX_ID

\* line 101
validId(e) == e.isInteger /\ e.num >= 1 /\ e.num <= MAX_ID

validIds(req) ==
    /\ req.isArray
    /\ Len(req.ids) # 0
    /\ \A i \in DOMAIN req.ids : validId(req.ids[i])

\* line 104
validPriority(p) == p \in {"HIGH", "MEDIUM", "LOW"}

\* faulty variant: the end index taken as inclusive
sliceInclusive(ids, i, j) ==
    SubSeq(ids, i + 1, IF j + 1 < Len(ids) THEN j + 1 ELSE Len(ids))

\* ids.slice(i, j), i and j counted from 0
slice(ids, i, j) ==
    SubSeq(ids, i + 1, IF j < Len(ids) THEN j ELSE Len(ids))

\* lines 113-119: the batching loop from index i on; acc holds batchStatuses,
\* the job's batches and the queue.  uuidv4() is the next unused number.
RECURSIVE batchLoop(_, _, _, _, _, _)
batchLoop(ids, i, acc, priority, created_time, ingestion_id) ==
    IF i < Len(ids)
    THEN LET batch_ids == slice(ids, i, i + BATCH_SIZE)
             batch_id == Len(acc.batchStatuses) + 1
         IN  batchLoop(ids, i + BATCH_SIZE,
                 [batchStatuses |-> Append(acc.batchStatuses,
                      [batch_id |-> batch_id, ids |-> batch_ids,
                       status |-> "yet_to_start"]),
                  batches |-> Append(acc.batches, batch_id),
                  queue |-> enqueue(acc.queue,
                      [batch_id |-> batch_id, ids |-> batch_ids,
                       priority |-> priority, created_time |-> created_time,
                       ingestion_id |-> ingestion_id])],
                 priority, created_time, ingestion_id)
    ELSE acc

\* faulty variant: the queue length compared with 1
startsRunSingle(queueLength, batchCount) == queueLength = 1

\* lines 123-126: is a dispatcher run started after the enqueues?
startsRun(queueLength, batchCount) == queueLength = batchCount

\* POST /ingest with body req
Ingest(req) ==
    IF ~validIds(req)
    THEN /\ response' = [kind |-> "ingest", code |-> 400, body |-> "Invalid IDs"]
         /\ UNCHANGED <<now, core, accepted, log, attempts>>
    ELSE IF ~validPriority(priorityOf(req))
    THEN /\ response' = [kind |-> "ingest", code |-> 400, body |-> "Invalid priority"]
         /\ UNCHANGED <<now, core, accepted, log, attempts>>
    ELSE
      /\ Len(ingestionJobs) < MaxJobs
      /\ LET ids == [i \in DOMAIN req.ids |-> req.ids[i].num]
             priority == priorityOf(req)
             ingestion_id == Len(ingestionJobs) + 1
             created_time == now
             made == batchLoop(ids, 0,
                        [batchStatuses |-> batchStatuses, batches |-> <<>>,
                         queue |-> queue],
                        priority, created_time, ingestion_id)
             jobs == Append(ingestionJobs,
                        [ingestion_id |-> ingestion_id, status |-> "yet_to_start",
                         batches |-> made.batches, priority |-> priority,
                         created_time |-> created_time])
             st == [queue |-> made.queue, batchStatuses |-> made.batchStatuses,
                    ingestionJobs |-> jobs,
                    lastProcessedTime |-> lastProcessedTime,
                    run |-> Returned, log |-> log]
             started == startsRun(Len(made.queue), Len(made.batches))
             end == IF started THEN LoopHead(st, now) ELSE st
         IN  /\ queue' = end.queue
             /\ batchStatuses' = end.batchStatuses
             /\ ingestionJobs' = end.ingestionJobs
             /\ lastProcessedTime' = end.lastProcessedTime
             /\ log' = end.log
             /\ runs' = IF started THEN Append(runs, end.run) ELSE runs
             /\ response' = [kind |-> "ingest", code |-> 200, body |-> ingestion_id]
             /\ accepted' = Append(accepted,
                    [ids |-> ids,
                     queueLengthBefore |-> Len(queue),
                     rateOpen |-> now - lastProcessedTime >= RATE_LIMIT_MS,
                     activeBefore |-> Cardinality({r \in DOMAIN runs : Active(runs[r])}),
                     waitingBefore |-> \E r \in DOMAIN runs : runs[r].pc = "wait",
                     lastProcessedBefore |-> lastProcessedTime,
                     dispatchedBefore |-> Len(log),
                     started |-> started])
             /\ attempts' = attempts \o [i \in DOMAIN made.batches |-> <<>>]
      /\ UNCHANGED now

\* ------------------------------------------------------------- Status query
\* GET /status/:ingestion_id
StatusQuery(ingestion_id) ==
    IF ingestion_id \notin DOMAIN ingestionJobs
    THEN [kind |-> "status", code |-> 404, body |-> "Ingestion ID not found"]
    ELSE LET job == ingestionJobs[ingestion_id]
         IN  [kind |-> "status", code |-> 200,
              body |-> [ingestion_id |-> ingestion_id,
                        status |-> job.status,
                        batches |-> [i \in DOMAIN job.batches |->
                                        batchStatuses[job.batches[i]]]]]

Status(ingestion_id) ==
    /\ response' = StatusQuery(ingestion_id)
    /\ UNCHANGED <<now, core, accepted, log, attempts>>

\* ------------------------------------------------------------------- inputs
\* one id, one full batch, or MaxIds ids; the last id is the largest valid one
ValidIdLists ==
    {[i \in 1..n |-> Elem(IF i = n THEN MAX_ID ELSE i)] :
        n \in {1, BATCH_SIZE, MaxIds}}

GoodRequests ==
    {[isArray |-> TRUE, ids |-> l, priority |-> p] :
        l \in ValidIdLists, p \in {"HIGH", "MEDIUM", "LOW", Undefined}}

BadIdRequests ==
    {[isArray |-> a, ids |-> l, priority |-> "HIGH"] :
        a \in {TRUE}, l \in {<<>>, <<Elem(-1)>>, <<Elem(0)>>, <<Elem(MAX_ID + 1)>>,
                             <<Elem(1), NotInteger>>}}
    \cup {[isArray |-> FALSE, ids |-> <<>>, priority |-> "HIGH"]}

BadPriorityRequests ==
    {[isArray |-> TRUE, ids |-> <<Elem(1)>>, priority |-> p] : p \in {"URGENT", "low"}}

Requests == GoodRequests \cup BadIdRequests \cup BadPriorityRequests

\* ------------------------------------------------------------ specification
Tick ==
    /\ now + TickMs <= MaxTime
    /\ \A r \in DOMAIN runs : Active(runs[r]) => now < runs[r].wakeAt
    /\ now' = now + TickMs
    /\ response' = NoResponse
    /\ UNCHANGED <<core, accepted, log, attempts>>

Init ==
    /\ now = StartTime
    /\ queue = <<>>
    /\ ingestionJobs = <<>>
    /\ batchStatuses = <<>>
    /\ lastProcessedTime = 0
    /\ runs = <<>>
    /\ response = NoResponse
    /\ accepted = <<>>
    /\ log = <<>>
    /\ attempts = <<>>

Next ==
    \/ \E req \in Requests : Ingest(req)
    \/ \E id \in 1..(MaxJobs + 1) : Status(id)
    \/ \E r \in DOMAIN runs : WakeUp(r)
    \/ \E r \in DOMAIN runs : FetchSettled(r)
    \/ Tick

Spec == Init /\ [][Next]_vars

\* The same program with a per-item operation that may fail: every call of
\* fetchExternalData is fulfilled or rejected.
NextFaulty ==
    \/ \E req \in GoodRequests : Ingest(req)
    \/ \E r \in DOMAIN runs : WakeUp(r)
    \/ \E r \in DOMAIN runs : FetchSettled(r)
    \/ \E r \in DOMAIN runs : FetchFailed(r)
    \/ Tick

SpecFaulty == Init /\ [][NextFaulty]_vars

\* The program left to finish: submissions are made up to MaxTime, after that
\* the clock runs on for as long as a timer of a run is pending.  The event
\* loop runs every segment that is ready and the clock does not stop.
\* fetchExternalData resolves after its delay and never rejects (lines 48-51).
TimePasses ==
    /\ now + TickMs <= MaxTime \/ \E r \in DOMAIN runs : Active(runs[r])
    /\ \A r \in DOMAIN runs : Active(runs[r]) => now < runs[r].wakeAt
    /\ now' = now + TickMs
    /\ response' = NoResponse
    /\ UNCHANGED <<core, accepted, log, attempts>>

Submit ==
    /\ now <= MaxTime
    /\ \E req \in GoodRequests : Ingest(req)

RunStep == \E r \in DOMAIN runs : WakeUp(r) \/ FetchSettled(r)

NextLive ==
    \/ Submit
    \/ RunStep
    \/ TimePasses

SpecLive ==
    Init /\ [][NextLive]_vars /\ WF_vars(RunStep) /\ WF_vars(TimePasses)

\* The Status Aggregator on its own: a job of 1..MaxBatches batches in any
\* statuses and a second job of one batch, each with a stored status that
\* differs from what its batches give, so that a recompute shows.
Statuses == {"yet_to_start", "triggered", "completed"}

AggregateJob(ingestion_id, status, batches) ==
    [ingestion_id |-> ingestion_id, status |-> status, batches |-> batches,
     priority |-> "LOW", created_time |-> StartTime]

AggregateInit ==
    \E n \in 1..MaxBatches : \E given \in [1..(n + 1) -> Statuses] :
    \E stored \in [1..2 -> Statuses] :
        LET bs == [b \in 1..(n + 1) |->
                      [batch_id |-> b, ids |-> <<b>>, status |-> given[b]]]
        IN  /\ stored[1] # jobStatus(SubSeq(bs, 1, n))
            /\ stored[2] # jobStatus(SubSeq(bs, n + 1, n + 1))
            /\ batchStatuses = bs
            /\ ingestionJobs =
                  <<AggregateJob(1, stored[1], [i \in 1..n |-> i]),
                    AggregateJob(2, stored[2], <<n + 1>>)>>
            /\ attempts = [b \in 1..(n + 1) |-> <<>>]
            /\ now = StartTime
            /\ queue = <<>>
            /\ lastProcessedTime = 0
            /\ runs = <<>>
            /\ response = NoResponse
            /\ accepted = <<>>
            /\ log = <<>>

\* a call of updateIngestionStatus(ingestion_id)
Recompute(ingestion_id) ==
    /\ ingestionJobs' = updateIngestionStatus(ingestionJobs, batchStatuses,
                                              ingestion_id)
    /\ UNCHANGED <<now, queue, batchStatuses, lastProcessedTime, runs, response,
                   accepted, log, attempts>>

SpecAggregate ==
    AggregateInit /\ [][\E ingestion_id \in 1..3 : Recompute(ingestion_id)]_vars

\* ================================================================== claims
ActiveRuns == {r \in DOMAIN runs : Active(runs[r])}

\* the job of `jobs` a batch was created for
JobOf(jobs, batch_id) ==
    jobs[CHOOSE j \in DOMAIN jobs :
            \E i \in DOMAIN jobs[j].batches : jobs[j].batches[i] = batch_id]

\* a dequeue returned a batch in this step; it is the last entry of log'
Dispatched == Len(log') = Len(log) + 1

\* C1: at most one dispatcher run is active at any time, and a submission
\* starts a run only when no run is active.
C1_SingleActiveRun ==
    /\ Cardinality(ActiveRuns) <= 1
    /\ \A j \in DOMAIN accepted : accepted[j].started => accepted[j].activeBefore = 0

\* C2: of two batches dispatched consecutively, the second is marked
\* triggered no earlier than RATE_LIMIT_MS after the first was marked
\* completed.
C2_DispatchSpacing ==
    \A i \in 1..(Len(log) - 1) :
        /\ log[i].completedAt >= 0
        /\ log[i + 1].triggeredAt >= log[i].completedAt + RATE_LIMIT_MS

\* C3: dequeue returns the pending entry that is smallest by priority rank,
\* then created_time, then insertion order (batch ids are numbered in
\* insertion order).
KeyBefore(a, b) ==
    \/ priorityOrder(a.priority) < priorityOrder(b.priority)
    \/ /\ priorityOrder(a.priority) = priorityOrder(b.priority)
       /\ \/ a.created_time < b.created_time
          \/ a.created_time = b.created_time /\ a.batch_id < b.batch_id

C3_DequeueSmallest ==
    [][Dispatched =>
          LET id == log'[Len(log')].batch_id
              job == JobOf(ingestionJobs', id)
              got == [batch_id |-> id, priority |-> job.priority,
                      created_time |-> job.created_time]
          IN  \A i \in DOMAIN queue' : KeyBefore(got, queue'[i])]_vars

\* a later-inserted entry left the queue before an earlier one still pending
C3_Witness ==
    \E i \in DOMAIN log : \E k \in DOMAIN queue :
        queue[k].batch_id < log[i].batch_id

\* C4: a batch's status only moves yet_to_start -> triggered -> completed,
\* one stage per step; a batch created in a step (as yet_to_start) is at most
\* triggered when the step ends, and no batch is ever removed.
C4_StatusMonotonic ==
    [][/\ DOMAIN batchStatuses \subseteq DOMAIN batchStatuses'
       /\ \A b \in DOMAIN batchStatuses' :
             LET new == batchStatuses'[b].status
             IN  IF b \in DOMAIN batchStatuses
                 THEN LET old == batchStatuses[b].status
                      IN  \/ new = old
                          \/ old = "yet_to_start" /\ new = "triggered"
                          \/ old = "triggered" /\ new = "completed"
                 ELSE new \in {"yet_to_start", "triggered"}]_vars

C4_Witness ==
    \E b \in DOMAIN batchStatuses : \E c \in DOMAIN batchStatuses :
        /\ batchStatuses[b].status = "completed"
        /\ batchStatuses[c].status = "triggered"

\* C5: every batch created is either pending in the queue exactly once, with
\* status yet_to_start and never dequeued, or not in the queue and dequeued
\* exactly once.
TimesQueued(b) == Cardinality({k \in DOMAIN queue : queue[k].batch_id = b})
TimesDequeued(b) == Cardinality({i \in DOMAIN log : log[i].batch_id = b})

C5_DequeuedOnce ==
    /\ \A k \in DOMAIN queue : queue[k].batch_id \in DOMAIN batchStatuses
    /\ \A b \in DOMAIN batchStatuses :
          \/ /\ TimesQueued(b) = 1
             /\ TimesDequeued(b) = 0
             /\ batchStatuses[b].status = "yet_to_start"
          \/ /\ TimesQueued(b) = 0
             /\ TimesDequeued(b) = 1

\* two runs are active, one batch is pending and another was dequeued
C5_Witness ==
    /\ Cardinality(ActiveRuns) >= 2
    /\ queue # <<>>
    /\ log # <<>>

\* C6 as stated: when the handler returns the job identifier, the new job and
\* each of its batches are yet_to_start.
Returned200 == response.kind = "ingest" /\ response.code = 200

StatusesOf(job) == [i \in DOMAIN job.batches |-> batchStatuses[job.batches[i]].status]

C6_YetToStartAtReturn ==
    Returned200 =>
        LET job == ingestionJobs[response.body]
        IN  /\ job.status = "yet_to_start"
            /\ \A i \in DOMAIN job.batches : StatusesOf(job)[i] = "yet_to_start"

\* C6 amended: when the handler returns the job identifier, the new job and
\* each of its batches are yet_to_start, unless the queue was empty before
\* the submission and at least RATE_LIMIT_MS had passed since
\* lastProcessedTime: then the job and its first batch are triggered and its
\* other batches are yet_to_start.
C6_StatusAtReturn ==
    Returned200 =>
        LET job == ingestionJobs[response.body]
            found == accepted[response.body]
        IN  IF found.queueLengthBefore = 0 /\ found.rateOpen
            THEN /\ job.status = "triggered"
                 /\ StatusesOf(job)[1] = "triggered"
                 /\ \A i \in 2..Len(job.batches) : StatusesOf(job)[i] = "yet_to_start"
            ELSE /\ job.status = "yet_to_start"
                 /\ \A i \in DOMAIN job.batches : StatusesOf(job)[i] = "yet_to_start"

\* a submission of two batches returns with its run held at the rate gate,
\* after an earlier submission returned with its first batch triggered
C6_Witness ==
    /\ Returned200
    /\ response.body = 2
    /\ accepted[1].rateOpen
    /\ accepted[2].started
    /\ ~accepted[2].rateOpen
    /\ Len(ingestionJobs[2].batches) = 2

\* C7: a submission of n ids creates ceil(n / BATCH_SIZE) batches whose item
\* lists, concatenated in job order, are the ids; all but the last hold
\* BATCH_SIZE items and the last holds 1..BATCH_SIZE.
RECURSIVE Flatten(_)
Flatten(ss) == IF ss = <<>> THEN <<>> ELSE Head(ss) \o Flatten(Tail(ss))

C7_Batching ==
    \A j \in DOMAIN ingestionJobs :
        LET ids == accepted[j].ids
            batches == ingestionJobs[j].batches
            items == [i \in DOMAIN batches |-> batchStatuses[batches[i]].ids]
            n == Len(ids)
        IN  /\ Len(batches) * BATCH_SIZE >= n
            /\ (Len(batches) - 1) * BATCH_SIZE < n
            /\ Flatten(items) = ids
            /\ \A i \in 1..(Len(batches) - 1) : Len(items[i]) = BATCH_SIZE
            /\ Len(items[Len(batches)]) \in 1..BATCH_SIZE
            /\ \A i \in DOMAIN batches : \A k \in DOMAIN ingestionJobs :
                  \A m \in DOMAIN ingestionJobs[k].batches :
                      ingestionJobs[k].batches[m] = batches[i] => k = j /\ m = i

\* a job of more than BATCH_SIZE ids and a job of exactly BATCH_SIZE ids
C7_Witness ==
    \E j \in DOMAIN ingestionJobs : \E k \in DOMAIN ingestionJobs :
        /\ Len(accepted[j].ids) > BATCH_SIZE
        /\ Len(ingestionJobs[j].batches) = 2
        /\ Len(accepted[k].ids) = BATCH_SIZE
        /\ Len(ingestionJobs[k].batches) = 1

\* C8: when a batch is marked triggered, no batch still pending has a
\* strictly higher priority.
C8_NoPriorityInversion ==
    [][Dispatched =>
          LET got == JobOf(ingestionJobs', log'[Len(log')].batch_id)
          IN  \A i \in DOMAIN queue' :
                 priorityOrder(queue'[i].priority) >= priorityOrder(got.priority)]_vars

\* a job submitted during a rate-limit wait was dispatched ahead of a
\* lower-priority batch that was pending before it and still is
C8_Witness ==
    \E i \in DOMAIN log : \E k \in DOMAIN queue :
        LET got == JobOf(ingestionJobs, log[i].batch_id)
        IN  /\ accepted[got.ingestion_id].waitingBefore
            /\ queue[k].batch_id < log[i].batch_id
            /\ priorityOrder(got.priority) < priorityOrder(queue[k].priority)

\* C9: a submission whose ids are no array, empty, or hold a non-integer or a
\* value outside 1..MAX_ID, or whose priority is given and is not HIGH, MEDIUM
\* or LOW, is answered 400 and changes nothing.
Invalid(req) ==
    \/ ~req.isArray
    \/ req.ids = <<>>
    \/ \E i \in DOMAIN req.ids :
          ~req.ids[i].isInteger \/ req.ids[i].num < 1 \/ req.ids[i].num > MAX_ID
    \/ req.priority \notin {"HIGH", "MEDIUM", "LOW", Undefined}

C9_RejectChangesNothing ==
    [][\A req \in Requests :
          Invalid(req) /\ Ingest(req) =>
              /\ response'.kind = "ingest"
              /\ response'.code = 400
              /\ UNCHANGED <<core, accepted, log, attempts>>]_vars

\* a submission was rejected while a run was active and a batch pending
C9_Witness ==
    /\ response.kind = "ingest"
    /\ response.code = 400
    /\ queue # <<>>
    /\ ActiveRuns # {}

\* C10: once every batch of a job has reached completed, a status query
\* answers status completed with every batch completed, in that state and
\* in every later one.
ReachedCompleted(batch_id) ==
    \E i \in DOMAIN log : log[i].batch_id = batch_id /\ log[i].completedAt >= 0

AllReachedCompleted(j) ==
    \A i \in DOMAIN ingestionJobs[j].batches :
        ReachedCompleted(ingestionJobs[j].batches[i])

AnswersCompleted(res) ==
    /\ res.code = 200
    /\ res.body.status = "completed"
    /\ \A i \in DOMAIN res.body.batches : res.body.batches[i].status = "completed"

C10_CompletedStays ==
    /\ \A j \in DOMAIN ingestionJobs :
          AllReachedCompleted(j) => AnswersCompleted(StatusQuery(j))
    /\ response.kind = "status" /\ response.code = 200
          /\ AllReachedCompleted(response.body.ingestion_id)
          => AnswersCompleted(response)

\* a job is queried after its batches completed, while a job submitted
\* after it is being processed
C10_Witness ==
    /\ response.kind = "status"
    /\ response.code = 200
    /\ AllReachedCompleted(response.body.ingestion_id)
    /\ \E j \in DOMAIN ingestionJobs :
          j > response.body.ingestion_id /\ ingestionJobs[j].status = "triggered"

\* the aggregation rule as the claims state it, on a sequence of statuses
AggregationRule(statuses) ==
    IF \A i \in DOMAIN statuses : statuses[i] = "yet_to_start" THEN "yet_to_start"
    ELSE IF \E i \in DOMAIN statuses : statuses[i] = "triggered" THEN "triggered"
    ELSE "completed"

\* C12: at most one batch of the store is triggered, and the per-item calls
\* of two batches are never in progress together.
C12_NoParallelBatches ==
    /\ Cardinality({b \in DOMAIN batchStatuses :
                       batchStatuses[b].status = "triggered"}) <= 1
    /\ Cardinality({r \in DOMAIN runs : runs[r].pc = "fetch"}) <= 1

\* C13: batches are marked triggered in dequeue order, and are marked
\* completed in the order in which they were marked triggered.
C13_CompletionOrder ==
    \A i \in DOMAIN log : \A k \in DOMAIN log :
        i < k =>
            /\ log[i].triggeredAt <= log[k].triggeredAt
            /\ log[k].completedAt >= 0 =>
                  /\ log[i].completedAt >= 0
                  /\ log[i].completedAt <= log[k].completedAt

\* C15: each job's stored status is the aggregation rule applied to the
\* current statuses of its batches, and every batch the job references is in
\* the batch store.
C15_StatusConsistent ==
    \A j \in DOMAIN ingestionJobs :
        /\ \A i \in DOMAIN ingestionJobs[j].batches :
              ingestionJobs[j].batches[i] \in DOMAIN batchStatuses
        /\ ingestionJobs[j].status = AggregationRule(StatusesOf(ingestionJobs[j]))

\* a job with a completed, a triggered and no other batch, next to a job
\* whose run is held at the rate gate
C15_Witness ==
    /\ \E j \in DOMAIN ingestionJobs :
          /\ ingestionJobs[j].status = "triggered"
          /\ Len(ingestionJobs[j].batches) = 2
          /\ StatusesOf(ingestionJobs[j]) = <<"completed", "triggered">>
    /\ Len(ingestionJobs) = 2

\* C16: a job with a completed batch, a yet_to_start batch and no triggered
\* batch has status completed (and such a state is reached).
Mixed(j) ==
    LET statuses == StatusesOf(ingestionJobs[j])
    IN  /\ \E i \in DOMAIN statuses : statuses[i] = "completed"
        /\ \E i \in DOMAIN statuses : statuses[i] = "yet_to_start"
        /\ \A i \in DOMAIN statuses : statuses[i] # "triggered"

C16_MixedIsCompleted ==
    \A j \in DOMAIN ingestionJobs : Mixed(j) => ingestionJobs[j].status = "completed"

\* between two dispatch cycles: the run waits at the rate gate with the
\* job's first batch completed and its second pending
C16_Witness ==
    \E j \in DOMAIN ingestionJobs :
        /\ Mixed(j)
        /\ ingestionJobs[j].status = "completed"
        /\ \E r \in DOMAIN runs : runs[r].pc = "wait"
        /\ \E k \in DOMAIN queue : queue[k].ingestion_id = j

C20_DequeueFindsBatch ==
    \A r \in DOMAIN runs : runs[r].pc # "threw"

\* C17: a run started by a submission while no run was active and less
\* than RATE_LIMIT_MS after the last completion dispatches nothing earlier
\* than RATE_LIMIT_MS after that completion; a waiting run holds no batch and
\* takes the head of the queue as it is when the wait ends.
GatedStart(found) ==
    found.started /\ found.activeBefore = 0 /\ ~found.rateOpen

GatedSpacing ==
    \A j \in DOMAIN accepted :
        GatedStart(accepted[j]) =>
            \A i \in (accepted[j].dispatchedBefore + 1)..Len(log) :
                log[i].triggeredAt >=
                    accepted[j].lastProcessedBefore + RATE_LIMIT_MS

AttemptsInOrder ==
    \A b \in DOMAIN batchStatuses :
        LET ids == batchStatuses[b].ids
            done == attempts[b]
            status == batchStatuses[b].status
        IN  /\ Len(done) <= Len(ids)
            /\ \A i \in DOMAIN done : done[i].id = ids[i]
            /\ status = "completed" <=> Len(done) = Len(ids)
            /\ status = "yet_to_start" => done = <<>>
            /\ status = "triggered" =>
                  \E r \in DOMAIN runs :
                      /\ runs[r].pc = "fetch"
                      /\ runs[r].batch.batch_id = b
                      /\ runs[r].idx = Len(done) + 1

C14_FailuresSwallowed ==
    [][/\ AttemptsInOrder'
       /\ \A r \in DOMAIN runs :
             runs[r].pc = "fetch" =>
                 /\ runs'[r].pc \in {"fetch", "wait", "returned"}
                 /\ runs'[r].pc = "returned" => queue' = <<>>]_vars

\* a batch with a failed first and a fulfilled last attempt is completed and
\* its run has gone on to the rate gate for the next batch
C14_Witness ==
    \E b \in DOMAIN batchStatuses :
        /\ batchStatuses[b].status = "completed"
        /\ Len(attempts[b]) = BATCH_SIZE
        /\ ~attempts[b][1].ok
        /\ attempts[b][BATCH_SIZE].ok
        /\ \E r \in DOMAIN runs : runs[r].pc = "wait"
        /\ b + 1 \in DOMAIN batchStatuses
        /\ batchStatuses[b + 1].status = "yet_to_start"

\* C11: updateIngestionStatus sets the job's status to the aggregation rule
\* of its batches' current statuses, whatever the status stored before;
\* a second call changes nothing; no batch and no other job is changed.
C11_AggregatorPure ==
    [][\A j \in DOMAIN ingestionJobs :
          Recompute(j) =>
              LET want == AggregationRule(StatusesOf(ingestionJobs[j]))
              IN  /\ ingestionJobs' = [ingestionJobs EXCEPT ![j].status = want]
                  /\ batchStatuses' = batchStatuses
                  /\ \A before \in Statuses :
                        updateIngestionStatus(
                            [ingestionJobs EXCEPT ![j].status = before],
                            batchStatuses, j) = ingestionJobs'
                  /\ updateIngestionStatus(ingestionJobs', batchStatuses', j)
                        = ingestionJobs']_vars

\* job 1 was recomputed to completed over a completed and a yet_to_start
\* batch, while job 2 still has its out-of-date status
C11_Witness ==
    /\ Len(ingestionJobs) = 2
    /\ Mixed(1)
    /\ ingestionJobs[1].status = "completed"
    /\ ingestionJobs[2].status # AggregationRule(StatusesOf(ingestionJobs[2]))

\* C19: with the timers firing and the clock running, every batch created is
\* completed in the end, every job then has status completed, every run has
\* ended and the queue is empty.  Batches are never removed, so a triggered
\* batch is among those completed.
Quiescent ==
    /\ queue = <<>>
    /\ \A r \in DOMAIN runs : ~Active(runs[r])
    /\ \A b \in DOMAIN batchStatuses : batchStatuses[b].status = "completed"
    /\ \A j \in DOMAIN ingestionJobs : ingestionJobs[j].status = "completed"

C19_AllCompleteInTheEnd == []<>Quiescent

\* two jobs, one of two batches, are through and nothing is left to do
C19_Witness ==
    /\ Quiescent
    /\ Len(ingestionJobs) = 2
    /\ Len(batchStatuses) >= 3

====
